---------------------------- MODULE Spec2Model ----------------------------
(***************************************************************************)
(* A model of server.py, the video splitter: the timestamp parser, the     *)
(* first-word deriver, the /split handler with its copy -> re-encode       *)
(* fallback, the temp_clips table, /download and the exit-time sweep.      *)
(*                                                                         *)
(* Text is modelled as a sequence of one-character strings, so that        *)
(* split, strip, replace and int are computed character by character.     *)
(***************************************************************************)
EXTENDS Integers, Sequences, FiniteSets, TLC

-----------------------------------------------------------------------------
(* Bounds of the model.                                                    *)

\* how many comma-separated candidates the enumerated timestamp texts hold
MaxCands == 2
\* how many characters the enumerated file-name stems hold
MaxStem == 3
\* how many /split requests are made in one run of the server
MaxJobs == 2
\* how many different values os.urandom(8) can return
MaxRand == 2
\* how many different names tempfile.mkdtemp can pick
MaxDirs == 2

-----------------------------------------------------------------------------
(* Python's str operations, on sequences of characters.                    *)

Digits == <<"0", "1", "2", "3", "4", "5", "6", "7", "8", "9">>

IsDigit(c) == \E k \in 1..10 : Digits[k] = c

DigitVal(c) == (CHOOSE k \in 1..10 : Digits[k] = c) - 1

IsSpace(c) == c = " "

\* s[a..b], the empty sequence when a > b
Slice(s, a, b) == [k \in 1..(b - a + 1) |-> s[a + k - 1]]

\* does character c occur in s (the `in` operator with a one-character needle)
Contains(s, c) == \E k \in 1..Len(s) : s[k] = c

\* str.find for a one-character needle, 1-based; 0 when absent
Find(s, c) ==
    LET hits == {k \in 1..Len(s) : s[k] = c}
    IN  IF hits = {} THEN 0 ELSE CHOOSE k \in hits : \A j \in hits : k <= j

\* str.rfind for a one-character needle, 1-based; 0 when absent
RFind(s, c) ==
    LET hits == {k \in 1..Len(s) : s[k] = c}
    IN  IF hits = {} THEN 0 ELSE CHOOSE k \in hits : \A j \in hits : k >= j

\* str.strip(): whitespace removed at both ends
Strip(s) ==
    LET keep == {k \in 1..Len(s) : ~IsSpace(s[k])}
    IN  IF keep = {} THEN <<>>
        ELSE LET lo == CHOOSE k \in keep : \A j \in keep : k <= j
                 hi == CHOOSE k \in keep : \A j \in keep : k >= j
             IN  Slice(s, lo, hi)

\* str.split(sep) for a one-character separator: always at least one piece
RECURSIVE Split(_, _)
Split(s, sep) ==
    LET k == Find(s, sep)
    IN  IF k = 0 THEN <<s>>
        ELSE <<Slice(s, 1, k - 1)>> \o Split(Slice(s, k + 1, Len(s)), sep)

\* str.replace(old, new) for one-character old and new
Replace(s, old, new) == [k \in 1..Len(s) |-> IF s[k] = old THEN new ELSE s[k]]

\* str(n) for a natural number
RECURSIVE IntToStr(_)
IntToStr(n) ==
    IF n < 10 THEN <<Digits[n + 1]>>
    ELSE IntToStr(n \div 10) \o <<Digits[(n % 10) + 1]>>

\* the value of a non-empty sequence of digits
RECURSIVE DigitsVal(_)
DigitsVal(s) ==
    IF Len(s) = 0 THEN 0
    ELSE DigitsVal(Slice(s, 1, Len(s) - 1)) * 10 + DigitVal(s[Len(s)])

\* int(tok): surrounding whitespace is ignored; anything but a non-empty run
\* of digits raises ValueError (the alphabet of the model has no sign and no
\* underscore between digits)
IntOk(tok) == LET t == Strip(tok) IN Len(t) > 0 /\ \A k \in 1..Len(t) : IsDigit(t[k])

IntVal(tok) == DigitsVal(Strip(tok))

-----------------------------------------------------------------------------
(* parse_timestamp and parse_timestamp_ranges.                             *)

NoError == "none"

\* a local name: Body sees value under the name of its parameter, value
\* being written, and computed, once
Bind(value, Body(_)) == Body(value)

\* the result of a call that may raise ValueError
Value(v) == [err |-> NoError, val |-> v, where |-> <<>>]

Raise(kind, text) == [err |-> kind, val |-> 0, where |-> text]

parse_timestamp(timestamp) ==
    Bind(Split(Strip(timestamp), ":"), LAMBDA parts :
        IF Len(parts) = 2 THEN
            IF ~IntOk(parts[1]) THEN Raise("invalid literal for int()", parts[1])
            ELSE IF ~IntOk(parts[2]) THEN Raise("invalid literal for int()", parts[2])
            ELSE Value(IntVal(parts[1]) * 60 + IntVal(parts[2]))
        ELSE IF Len(parts) = 3 THEN
            IF ~IntOk(parts[1]) THEN Raise("invalid literal for int()", parts[1])
            ELSE IF ~IntOk(parts[2]) THEN Raise("invalid literal for int()", parts[2])
            ELSE IF ~IntOk(parts[3]) THEN Raise("invalid literal for int()", parts[3])
            ELSE Value(IntVal(parts[1]) * 3600 + IntVal(parts[2]) * 60 + IntVal(parts[3]))
        ELSE Raise("Invalid timestamp format", timestamp))

\* line 537 with > for >=: equal bounds pass
StartAfterEnd(start, end) == start > end

\* the comparison of line 537
StartNotBeforeEnd(start, end) == start >= end

\* lines 540-545 keeping the labels with the blanks around them
RangeInfoUnstripped(start, end, parts) ==
    [start |-> start, end |-> end, start_str |-> parts[1], end_str |-> parts[2]]

\* the dict appended at lines 540-545
RangeInfo(start, end, parts) ==
    [start |-> start, end |-> end, start_str |-> Strip(parts[1]), end_str |-> Strip(parts[2])]

\* one pass of the loop body, lines 526-545: "skip" for continue, an error
\* for raise, else the range to append
RangeStep(raw) ==
    Bind(Strip(raw), LAMBDA range_str :
      IF range_str = <<>> THEN [kind |-> "skip", err |-> NoError, where |-> <<>>, range |-> <<>>]
      ELSE Bind(Split(range_str, "-"), LAMBDA parts :
        IF Len(parts) # 2 THEN
            [kind |-> "raise", err |-> "Invalid range format", where |-> range_str, range |-> <<>>]
        ELSE Bind(parse_timestamp(Strip(parts[1])), LAMBDA start :
          IF start.err # NoError THEN
              [kind |-> "raise", err |-> start.err, where |-> start.where, range |-> <<>>]
          ELSE Bind(parse_timestamp(Strip(parts[2])), LAMBDA end :
            IF end.err # NoError THEN
                [kind |-> "raise", err |-> end.err, where |-> end.where, range |-> <<>>]
            ELSE IF StartNotBeforeEnd(start.val, end.val) THEN
                [kind |-> "raise", err |-> "Invalid range", where |-> range_str, range |-> <<>>]
            ELSE [kind |-> "append", err |-> NoError, where |-> <<>>,
                  range |-> <<RangeInfo(start.val, end.val, parts)>>]))))

\* the for loop of lines 525-545 from candidate k on, with the list built so far
RECURSIVE RangesLoop(_, _, _)
RangesLoop(cands, k, ranges) ==
    IF k > Len(cands) THEN [err |-> NoError, where |-> <<>>, ranges |-> ranges]
    ELSE Bind(RangeStep(cands[k]), LAMBDA step :
             IF step.kind = "raise" THEN [err |-> step.err, where |-> step.where, ranges |-> <<>>]
             ELSE RangesLoop(cands, k + 1, ranges \o step.range))

parse_timestamp_ranges(timestamps_text) == RangesLoop(Split(timestamps_text, ","), 1, <<>>)

-----------------------------------------------------------------------------
(* get_first_word.                                                         *)

\* os.path.splitext(p)[0]: the extension starts at the last dot, provided the
\* dot comes after the last "/" and some character between that "/" and the
\* dot is not a dot (leading dots of the base name start no extension)
SplitExtRoot(p) ==
    LET sepIndex == RFind(p, "/")
        dotIndex == RFind(p, ".")
    IN  IF dotIndex > sepIndex /\ \E k \in (sepIndex + 1)..(dotIndex - 1) : p[k] # "."
        THEN Slice(p, 1, dotIndex - 1)
        ELSE p

\* the delimiter loop of lines 559-561, from delimiter k on
Delimiters == <<"_", "-", ".">>

RECURSIVE DelimiterLoop(_, _)
DelimiterLoop(name, k) ==
    IF k > Len(Delimiters) THEN (IF name # <<>> THEN name ELSE <<"c", "l", "i", "p">>)
    ELSE IF Contains(name, Delimiters[k]) THEN Split(name, Delimiters[k])[1]
    ELSE DelimiterLoop(name, k + 1)

get_first_word(filename) ==
    LET name_without_ext == SplitExtRoot(filename)
    IN  IF Contains(name_without_ext, " ") THEN Split(name_without_ext, " ")[1]
        ELSE DelimiterLoop(name_without_ext, 1)

-----------------------------------------------------------------------------
(* The inputs the model draws from.                                        *)

\* sep.join(pieces)
RECURSIVE Join(_, _)
Join(pieces, sep) ==
    IF Len(pieces) = 0 THEN <<>>
    ELSE IF Len(pieces) = 1 THEN pieces[1]
    ELSE pieces[1] \o <<sep>> \o Join(Tail(pieces), sep)

\* range candidates, as a user may type them between two commas
CandValid == <<"0", ":", "1", "-", "0", ":", "2">>

CandSpaced == <<" ", "1", ":", "0", " ", "-", " ", "1", ":", "0", ":", "0", " ">>

CandReversed == <<"0", ":", "2", "-", "0", ":", "1">>

CandEqual == <<"0", ":", "1", "-", "0", ":", "1">>

CandWord == <<"b", "a", "d">>

CandThreeParts == <<"0", ":", "1", "-", "0", ":", "2", "-", "0", ":", "3">>

CandFourTokens == <<"1", ":", "2", ":", "3", ":", "4", "-", "5", ":", "0", "0">>

CandNonNumeric == <<"0", ":", "x", "-", "0", ":", "1">>

CandEmpty == <<>>

CandBlank == <<" ">>

CandOneToken == <<"1", "-", "2">>

CandNoEnd == <<"0", ":", "1", "-">>

CandSpecFirst == <<"1", ":", "3", "4", ":", "3", "0", " ", "-", " ", "1", ":", "4", "0", ":", "4", "3">>

CandSpecSecond == <<" ", "4", "0", ":", "4", "3", " ", "-", " ", "4", "5", ":", "0", "0">>

Cands ==
    {CandValid, CandSpaced, CandReversed, CandEqual,
     CandWord, CandThreeParts, CandFourTokens, CandNonNumeric,
     CandEmpty, CandBlank, CandOneToken, CandNoEnd,
     CandSpecFirst, CandSpecSecond}

\* the timestamp texts of n candidates joined by commas
TextsOf(n) == {Join(cs, ",") : cs \in [1..n -> Cands]}

Texts == UNION {TextsOf(n) : n \in 0..MaxCands}

\* file names: every stem over the alphabet, bare and with the extension .mp4
StemChars == {"a", " ", "_", "-", ".", "/"}

Stems == UNION {[1..n -> StemChars] : n \in 0..MaxStem}

DotMp4 == <<".", "m", "p", "4">>

Names == Stems \cup {stem \o DotMp4 : stem \in Stems}

\* how many ranges the longest accepted timestamp text of a /split request holds
MaxRanges == 2

\* the k-th range of an accepted text; every other one repeats the first
MainCand(k) == IF k % 2 = 1 THEN CandValid ELSE CandSpaced

TextOfRanges(n) == Join([k \in 1..n |-> MainCand(k)], ",")

\* the `timestamps` form fields of the /split requests
MainTexts ==
    {TextOfRanges(n) : n \in 1..MaxRanges}
        \cup {<<>>, <<",", ",">>, CandWord, CandReversed, CandEqual,
              Join(<<CandValid, CandReversed>>, ",")}

\* the uploaded file names of the /split requests
MainNames == {<<"a", " ", "b", ".", "m", "p", "4">>, <<"_", ".", "m", "p", "4">>, <<"a", ".", "t", "x", "t">>, <<>>}

\* the `outputPath` form fields: none, a directory that exists (typed with a
\* trailing space), one that does not exist yet, and a regular file
DirOut == <<"/", "o">>

DirNew == <<"/", "n">>

FileF == <<"/", "f">>

OutputPaths == {<<>>, DirOut \o <<" ">>, DirNew, FileF}

\* what exists on disk besides the directories: never created or deleted here
RegularFiles == {FileF}

-----------------------------------------------------------------------------
(* The helpers of the /split handler.                                      *)

\* str.lower() on the letters of the model
LowerChar(c) ==
    CASE c = "A" -> "a" [] c = "M" -> "m" [] c = "P" -> "p" [] c = "T" -> "t" [] c = "X" -> "x"
      [] OTHER -> c

Lower(s) == [k \in 1..Len(s) |-> LowerChar(s[k])]

ALLOWED_EXTENSIONS ==
    {<<"m", "p", "4">>, <<"a", "v", "i">>, <<"m", "o", "v">>, <<"m", "k", "v">>, <<"w", "e", "b", "m">>,
     <<"f", "l", "v">>, <<"w", "m", "v">>, <<"m", "p", "g">>, <<"m", "p", "e", "g">>, <<"m", "4", "v">>}

\* filename.rsplit('.', 1)[1]
AfterLastDot(s) == Slice(s, RFind(s, ".") + 1, Len(s))

allowed_file(filename) ==
    Contains(filename, ".") /\ Lower(AfterLastDot(filename)) \in ALLOWED_EXTENSIONS

\* os.path.expanduser: a leading "~" alone or before "/" becomes the home directory
HomeDir == <<"/", "h">>

ExpandUser(path) ==
    IF Len(path) >= 1 /\ path[1] = "~" /\ (Len(path) = 1 \/ path[2] = "/")
    THEN HomeDir \o Tail(path)
    ELSE path

\* werkzeug's secure_filename: path separators become spaces, runs of
\* whitespace become one "_", characters outside [A-Za-z0-9_.-] are dropped,
\* and "." and "_" are stripped at both ends
SafeChar(c) ==
    IsDigit(c) \/ c \in {"a", "b", "m", "p", "t", "x", "A", "M", "P", "T", "X", "_", ".", "-"}

StripDotsUnderscores(s) ==
    LET keep == {k \in 1..Len(s) : s[k] \notin {".", "_"}}
    IN  IF keep = {} THEN <<>>
        ELSE LET lo == CHOOSE k \in keep : \A j \in keep : k <= j
                 hi == CHOOSE k \in keep : \A j \in keep : k >= j
             IN  Slice(s, lo, hi)

secure_filename(filename) ==
    LET words  == SelectSeq(Split(Replace(filename, "/", " "), " "), LAMBDA w : w # <<>>)
        joined == Join(words, "_")
    IN  StripDotsUnderscores(SelectSeq(joined, SafeChar))

\* lines 647-651
SafeFilename(filename) ==
    LET safe_filename == secure_filename(filename)
    IN  IF safe_filename = <<>> \/ safe_filename = DotMp4 THEN <<"t", "e", "m", "p", "_", "v", "i", "d", "e", "o", ".", "m", "p", "4">> ELSE safe_filename

\* os.path.join of a directory and a name without "/"
PathJoin(dir, name) == <<dir, name>>

\* the names tempfile.mkdtemp can pick
TempDir(k) == <<"/", "t", Digits[k + 1]>>

TempDirs == {TempDir(k) : k \in 1..MaxDirs}

\* line 664 numbering the clips from 0: enumerate(ranges) without the 1
OutputFilenameFromZero(first_word, i, range_info) ==
    first_word \o <<"-">> \o IntToStr(i - 1) \o <<"-", "[">>
        \o Replace(range_info.start_str, ":", "_") \o <<" ", "-", " ">>
        \o Replace(range_info.end_str, ":", "_") \o <<"]">> \o DotMp4

\* line 664
OutputFilename(first_word, i, range_info) ==
    first_word \o <<"-">> \o IntToStr(i) \o <<"-", "[">>
        \o Replace(range_info.start_str, ":", "_") \o <<" ", "-", " ">>
        \o Replace(range_info.end_str, ":", "_") \o <<"]">> \o DotMp4

\* lines 667-672
ClipOutputPath(q, output_filename) ==
    IF q.save_to_path THEN PathJoin(q.output_path, output_filename)
    ELSE PathJoin(q.temp_dir, output_filename)

\* line 675
Duration(range_info) == range_info.end - range_info.start

\* line 713: f"clip_{i}_{os.urandom(8).hex()}", the random part being rnd
ClipId(i, rnd) == <<"clip", i, rnd>>

NoId == <<>>

\* what os.urandom(8) can return
RandomValues == 1..MaxRand

\* every id a download may ask for
AllIds == {ClipId(i, rnd) : i \in 1..MaxRanges, rnd \in RandomValues}

\* shutil.rmtree(dir) when it succeeds: the files under dir are gone
FilesWithout(fs, dir) == [p \in {x \in DOMAIN fs : x[1] # dir} |-> fs[p]]

\* f with f[k] set to v, k added to its domain when absent (dict assignment)
Put(f, k, v) == [x \in DOMAIN f \cup {k} |-> IF x = k THEN v ELSE f[x]]

\* f without the keys in ks (del)
Without(f, ks) == [x \in DOMAIN f \ ks |-> f[x]]

-----------------------------------------------------------------------------
(* The state of the server.                                                *)

VARIABLES
    temp_clips,   \* the module-level dict of line 567: clip id -> record
    order,        \* the keys of temp_clips in the order a dict iterates: as inserted
    dirs,         \* the directories that exist on disk
    files,        \* the files the server wrote: path -> what the file holds
    req,          \* the /split requests: where each handler stands, its locals
    dl,           \* the response of the latest /download request
    exiting,      \* the interpreter is exiting: the atexit sweep has started
    sweep,        \* cleanup_temp_files: where it stands, the items it has left
    probe         \* the argument and result of a call of a pure function

vars == <<temp_clips, order, dirs, files, req, dl, exiting, sweep, probe>>

Jobs == 1..MaxJobs

NoResponse == [status |-> 0, error |-> "", where |-> <<>>, stderr |-> <<>>,
               clips |-> <<>>, saved_to_path |-> <<>>]

\* jsonify({'error': ...}), status
ErrorResponse(status, error, where, stderr) ==
    [status |-> status, error |-> error, where |-> where, stderr |-> stderr,
     clips |-> <<>>, saved_to_path |-> <<>>]

\* lines 730-741
SuccessResponse(q, clips_info) ==
    [status |-> 200, error |-> "", where |-> <<>>, stderr |-> <<>>, clips |-> clips_info,
     saved_to_path |-> IF q.save_to_path THEN q.output_path ELSE <<>>]

IdleReq ==
    [pc |-> "idle", filename |-> <<>>, timestamps |-> <<>>, outputPath |-> <<>>,
     save_to_path |-> FALSE, output_path |-> <<>>, ranges |-> <<>>, temp_dir |-> <<>>,
     input_path |-> <<>>, first_word |-> <<>>, i |-> 0, clips_info |-> <<>>, calls |-> <<>>,
     rmtree |-> "not called", response |-> NoResponse]

NoDownload == [id |-> NoId, status |-> 0, download_name |-> <<>>, body |-> <<>>]

NoParse == [err |-> NoError, where |-> <<>>, ranges |-> <<>>]

NoProbe == [fn |-> "none", arg |-> <<>>, called |-> FALSE, parsed |-> NoParse, word |-> <<>>]

\* what a file holds: the staged upload of request r, or a clip cut from it
Upload(r) == [src |-> r, ss |-> 0, t |-> 0, mode |-> "upload"]

Clip(src, ss, t, mode) == [src |-> src.src, ss |-> ss, t |-> t, mode |-> mode]

\* cleanup_temp_files has not been called
NoSweep == [pc |-> "idle", items |-> <<>>]

Init ==
    /\ temp_clips = <<>>
    /\ order = <<>>
    /\ dirs = {DirOut}
    /\ files = <<>>
    /\ req = [r \in Jobs |-> IdleReq]
    /\ dl = NoDownload
    /\ exiting = FALSE
    /\ sweep = NoSweep
    /\ probe = NoProbe

-----------------------------------------------------------------------------
(* POST /split, lines 599-750.                                             *)

\* the handler returns a response
Respond(r, q, response) ==
    req' = [req EXCEPT ![r] = [q EXCEPT !.pc = "done", !.response = response]]

\* what a call of shutil.rmtree(temp_dir, ignore_errors=True) did, for the record
RmTreeOutcome(called, rm_ok) ==
    IF ~called THEN "not called" ELSE IF rm_ok THEN "removed" ELSE "failed"

\* lines 729-741 without the rmtree of line 731
CompleteWithoutRmtree(r, q, fs, rm_ok) ==
    /\ Respond(r, q, SuccessResponse(q, q.clips_info))
    /\ dirs' = dirs
    /\ files' = fs

\* lines 729-741 after the last range: the scratch directory is removed when
\* the clips went to the output directory; rmtree(ignore_errors=True) may
\* leave the directory behind (rm_ok = FALSE) and says nothing about it
Complete(r, q, fs, rm_ok) ==
    /\ Respond(r, [q EXCEPT !.rmtree = RmTreeOutcome(q.save_to_path, rm_ok)],
               SuccessResponse(q, q.clips_info))
    /\ IF q.save_to_path /\ rm_ok
       THEN /\ dirs' = dirs \ {q.temp_dir}
            /\ files' = FilesWithout(fs, q.temp_dir)
       ELSE /\ dirs' = dirs
            /\ files' = fs

\* lines 743-750 answering the clips cut so far instead of the error alone
AbortWithPartialResult(r, q, fs, stderr, rm_ok) ==
    /\ Respond(r, [q EXCEPT !.rmtree = RmTreeOutcome(TRUE, rm_ok)],
               [ErrorResponse(500, "FFmpeg failed", <<>>, stderr) EXCEPT !.clips = q.clips_info])
    /\ IF rm_ok
       THEN /\ dirs' = dirs \ {q.temp_dir}
            /\ files' = FilesWithout(fs, q.temp_dir)
       ELSE /\ dirs' = dirs
            /\ files' = fs

\* the except clause of lines 743-750: rmtree of the scratch directory, then
\* the 500 response carrying str(e)
Abort(r, q, fs, stderr, rm_ok) ==
    /\ Respond(r, [q EXCEPT !.rmtree = RmTreeOutcome(TRUE, rm_ok)],
               ErrorResponse(500, "FFmpeg failed", <<>>, stderr))
    /\ IF rm_ok
       THEN /\ dirs' = dirs \ {q.temp_dir}
            /\ files' = FilesWithout(fs, q.temp_dir)
       ELSE /\ dirs' = dirs
            /\ files' = fs

\* lines 653-661 and, for an empty list of ranges, lines 729-741, ds being
\* the directories that exist by then: mkdtemp picks a name that does not
\* exist; either mkdtemp or file.save may raise, which the handler of line
\* 748 turns into a 500
Stage(r, q, ds) ==
    \E temp_dir \in TempDirs \ ds, outcome \in {"mkdtemp raises", "save raises", "staged"},
       rm_ok \in BOOLEAN :
      \E input_path \in {PathJoin(temp_dir, SafeFilename(q.filename))} :
        \E staged \in {[q EXCEPT !.temp_dir = temp_dir, !.input_path = input_path,
                                 !.first_word = get_first_word(q.filename), !.i = 1,
                                 !.pc = "copy"]} :
            CASE outcome = "mkdtemp raises" ->
                    /\ rm_ok
                    /\ Respond(r, q, ErrorResponse(500, "mkdtemp failed", <<>>, <<>>))
                    /\ dirs' = ds
                    /\ UNCHANGED files
              [] outcome = "save raises" ->
                    /\ rm_ok
                    /\ Respond(r, [q EXCEPT !.temp_dir = temp_dir, !.input_path = input_path],
                               ErrorResponse(500, "save failed", <<>>, <<>>))
                    /\ dirs' = ds \cup {temp_dir}
                    /\ UNCHANGED files
              [] outcome = "staged" /\ Len(q.ranges) = 0 ->
                    /\ (rm_ok \/ q.save_to_path)
                    /\ Respond(r, [staged EXCEPT !.rmtree = RmTreeOutcome(q.save_to_path, rm_ok)],
                               SuccessResponse(q, <<>>))
                    /\ IF q.save_to_path /\ rm_ok
                       THEN /\ dirs' = ds
                            /\ UNCHANGED files
                       ELSE /\ dirs' = ds \cup {temp_dir}
                            /\ files' = Put(files, input_path, Upload(r))
              [] outcome = "staged" /\ Len(q.ranges) > 0 ->
                    /\ rm_ok
                    /\ req' = [req EXCEPT ![r] = staged]
                    /\ dirs' = ds \cup {temp_dir}
                    /\ files' = Put(files, input_path, Upload(r))

\* lines 640-644, then staging
ParseAndStage(r, q, ds) ==
    \E parsed \in {parse_timestamp_ranges(q.timestamps)} :
        IF parsed.err # NoError
        THEN /\ Respond(r, q, ErrorResponse(400, parsed.err, parsed.where, <<>>))
             /\ dirs' = ds
             /\ UNCHANGED files
        ELSE Stage(r, [q EXCEPT !.ranges = parsed.ranges], ds)

\* lines 622-638, then parsing: os.makedirs either creates the directory or
\* raises, and a directory it created exists whatever the handler does next
CheckOutputPath(r, q) ==
    \E output_path \in {ExpandUser(Strip(q.outputPath))} :
      \E to_path \in {[q EXCEPT !.output_path = output_path, !.save_to_path = TRUE]} :
        IF Strip(q.outputPath) = <<>> THEN ParseAndStage(r, q, dirs)
        ELSE IF output_path \notin dirs /\ output_path \notin RegularFiles THEN
            \E makedirs_ok \in BOOLEAN :
                IF makedirs_ok THEN ParseAndStage(r, to_path, dirs \cup {output_path})
                ELSE /\ Respond(r, [q EXCEPT !.output_path = output_path],
                                ErrorResponse(400, "Cannot create output directory", <<>>, <<>>))
                     /\ UNCHANGED <<dirs, files>>
        ELSE IF output_path \notin dirs THEN
            /\ Respond(r, [q EXCEPT !.output_path = output_path],
                       ErrorResponse(400, "Output path must be a directory", <<>>, <<>>))
            /\ UNCHANGED <<dirs, files>>
        ELSE ParseAndStage(r, to_path, dirs)

\* lines 602-620, then the output path: the handler reads the form fields in
\* this order and keeps what it has read
SubmitFrom(r, names, texts, paths) ==
    /\ req[r].pc = "idle"
    /\ ~exiting
    /\ UNCHANGED <<temp_clips, order, dl, exiting, sweep, probe>>
    /\ \E has_video \in BOOLEAN :
          IF ~has_video THEN
              /\ Respond(r, IdleReq, ErrorResponse(400, "No video file provided", <<>>, <<>>))
              /\ UNCHANGED <<dirs, files>>
          ELSE \E filename \in names :
              LET q0 == [IdleReq EXCEPT !.filename = filename]
              IN  IF filename = <<>> THEN
                      /\ Respond(r, q0, ErrorResponse(400, "No file selected", <<>>, <<>>))
                      /\ UNCHANGED <<dirs, files>>
                  ELSE IF ~allowed_file(filename) THEN
                      /\ Respond(r, q0, ErrorResponse(400, "Invalid file type", <<>>, <<>>))
                      /\ UNCHANGED <<dirs, files>>
                  ELSE \E timestamps \in texts :
                      LET q1 == [q0 EXCEPT !.timestamps = timestamps]
                      IN  IF timestamps = <<>> THEN
                              /\ Respond(r, q1, ErrorResponse(400, "No timestamps provided",
                                                              <<>>, <<>>))
                              /\ UNCHANGED <<dirs, files>>
                          ELSE \E outputPath \in paths :
                              CheckOutputPath(r, [q1 EXCEPT !.outputPath = outputPath])

\* a /split request with any of the inputs
Submit(r) == SubmitFrom(r, MainNames, MainTexts, OutputPaths)

\* a /split request whose clips are to be downloaded: a video, one to
\* MaxRanges well-formed ranges, no output directory
SubmitForDownload(r) ==
    SubmitFrom(r, {<<"a", " ", "b", ".", "m", "p", "4">>}, {TextOfRanges(n) : n \in 1..MaxRanges}, {<<>>})

\* lines 696-706 seeking from the start of the input in the re-encode run
CutterCallReencodeFromStart(q, mode, ok) ==
    LET range_info == q.ranges[q.i]
    IN  [i |-> q.i, mode |-> mode, ok |-> ok, src |-> q.input_path,
         ss |-> IF mode = "reencode" THEN 0 ELSE range_info.start,
         t |-> Duration(range_info),
         target |-> ClipOutputPath(q, OutputFilename(q.first_word, q.i, range_info))]

\* one run of the cutter, lines 678-691 (mode "copy") or 696-706 (mode
\* "reencode"): it can only succeed while its input file and the directory
\* of its target exist
CutterCall(q, mode, ok) ==
    LET range_info == q.ranges[q.i]
    IN  [i |-> q.i, mode |-> mode, ok |-> ok, src |-> q.input_path, ss |-> range_info.start,
         t |-> Duration(range_info),
         target |-> ClipOutputPath(q, OutputFilename(q.first_word, q.i, range_info))]

CutterCanSucceed(call) == call.src \in DOMAIN files /\ call.target[1] \in dirs

\* the file the cutter writes with -y: whatever was at the target is replaced
FilesAfterCut(call) ==
    Put(files, call.target, Clip(files[call.src], call.ss, call.t, call.mode))

\* lines 711-727 for the clip just cut, then the next range or lines 729-741
StoreClip(r, q, call) ==
    LET output_filename == call.target[2]
        fs == FilesAfterCut(call)
        last == q.i = Len(q.ranges)
    IN  \E rnd \in RandomValues, rm_ok \in BOOLEAN :
            LET clip_id == ClipId(q.i, rnd)
                info == IF q.save_to_path THEN [id |-> NoId, filename |-> output_filename]
                        ELSE [id |-> clip_id, filename |-> output_filename]
                q1 == [q EXCEPT !.clips_info = Append(q.clips_info, info),
                                !.calls = Append(q.calls, call)]
            IN  /\ (q.save_to_path => rnd = 1)
                /\ (rm_ok \/ (q.save_to_path /\ last))
                /\ temp_clips' =
                       IF q.save_to_path THEN temp_clips
                       ELSE Put(temp_clips, clip_id,
                                [path |-> call.target, filename |-> output_filename,
                                 temp_dir |-> q.temp_dir])
                /\ order' =
                       IF q.save_to_path \/ clip_id \in DOMAIN temp_clips THEN order
                       ELSE Append(order, clip_id)
                /\ IF last THEN Complete(r, q1, fs, rm_ok)
                   ELSE /\ req' = [req EXCEPT ![r] = [q1 EXCEPT !.i = q.i + 1, !.pc = "copy"]]
                        /\ files' = fs
                        /\ dirs' = dirs

\* lines 662-693: the stream-copy run for range i
CutCopy(r) ==
    /\ req[r].pc = "copy"
    /\ UNCHANGED <<dl, exiting, sweep, probe>>
    /\ \E ok \in BOOLEAN :
          LET q == req[r]
              call == CutterCall(q, "copy", ok)
          IN  /\ ok => CutterCanSucceed(call)
              /\ IF ok THEN StoreClip(r, q, call)
                 ELSE /\ req' = [req EXCEPT ![r] = [q EXCEPT !.pc = "reencode",
                                                            !.calls = Append(q.calls, call)]]
                      /\ UNCHANGED <<temp_clips, order, dirs, files>>

\* lines 693-709: the re-encode run for range i, after the copy run failed
CutReencode(r) ==
    /\ req[r].pc = "reencode"
    /\ UNCHANGED <<dl, exiting, sweep, probe>>
    /\ \E ok \in BOOLEAN, rm_ok \in BOOLEAN :
          LET q == req[r]
              call == CutterCall(q, "reencode", ok)
          IN  /\ ok => CutterCanSucceed(call) /\ rm_ok
              /\ IF ok THEN StoreClip(r, q, call)
                 ELSE /\ Abort(r, [q EXCEPT !.calls = Append(q.calls, call)], files,
                               [i |-> q.i, mode |-> "reencode"], rm_ok)
                      /\ UNCHANGED <<temp_clips, order>>

-----------------------------------------------------------------------------
(* GET /download/<clip_id>, lines 752-766.                                 *)

\* send_file opens the path: a file that is gone raises, which is a 500
SendFile(clip_id, clip_info) ==
    IF clip_info.path \in DOMAIN files
    THEN [id |-> clip_id, status |-> 200, download_name |-> clip_info.filename,
          body |-> <<files[clip_info.path]>>]
    ELSE [id |-> clip_id, status |-> 500, download_name |-> <<>>, body |-> <<>>]

download_clip(clip_id) ==
    IF clip_id \notin DOMAIN temp_clips
    THEN [id |-> clip_id, status |-> 404, download_name |-> <<>>, body |-> <<>>]
    ELSE SendFile(clip_id, temp_clips[clip_id])

Download(clip_id) ==
    /\ dl' = download_clip(clip_id)
    /\ UNCHANGED <<temp_clips, order, dirs, files, req, exiting, sweep, probe>>

-----------------------------------------------------------------------------
(* cleanup_temp_files, lines 768-776, registered with atexit at line 783.  *)

\* line 770, at interpreter exit: list(temp_clips.items()), the records of
\* the table at that moment, in the order of the dict
SweepStart ==
    /\ ~exiting
    /\ exiting' = TRUE
    /\ \E items \in {[k \in 1..Len(order) |-> <<order[k], temp_clips[order[k]]>>]} :
          sweep' = [pc |-> IF items = <<>> THEN "done" ELSE "loop", items |-> items]
    /\ UNCHANGED <<temp_clips, order, dirs, files, req, dl, probe>>

\* lines 771-776 for the next item of the list: the directory, if it exists,
\* is removed unless rmtree, which ignores errors, fails on it; the record
\* is deleted (a KeyError would be caught and logged); the loop goes on
SweepRecord ==
    /\ sweep.pc = "loop"
    /\ \E clip_id \in {Head(sweep.items)[1]}, clip_info \in {Head(sweep.items)[2]},
          rm_ok \in BOOLEAN :
          /\ (clip_info.temp_dir \notin dirs) => rm_ok
          /\ IF clip_info.temp_dir \in dirs /\ rm_ok
             THEN /\ dirs' = dirs \ {clip_info.temp_dir}
                  /\ files' = FilesWithout(files, clip_info.temp_dir)
             ELSE UNCHANGED <<dirs, files>>
          /\ temp_clips' = Without(temp_clips, {clip_id})
          /\ order' = SelectSeq(order, LAMBDA id : id # clip_id)
          /\ sweep' = [sweep EXCEPT !.items = Tail(sweep.items),
                                    !.pc = IF Len(sweep.items) = 1 THEN "done" ELSE "loop"]
    /\ UNCHANGED <<req, dl, exiting, probe>>

-----------------------------------------------------------------------------
(* The server: requests are handled by threads of their own, so the steps  *)
(* of different handlers interleave.  Spec is the /split handler under     *)
(* every input; SpecStore is the table's life: /split requests that        *)
(* register clips, /download, and the sweep, which runs once, at exit,     *)
(* while handler threads (daemon threads) may still be running.            *)

Next ==
    \/ \E r \in Jobs : Submit(r)
    \/ \E r \in Jobs : CutCopy(r)
    \/ \E r \in Jobs : CutReencode(r)

Spec == Init /\ [][Next]_vars

NextStore ==
    \/ \E r \in Jobs : SubmitForDownload(r)
    \/ \E r \in Jobs : CutCopy(r)
    \/ \E r \in Jobs : CutReencode(r)
    \/ \E clip_id \in AllIds : Download(clip_id)
    \/ SweepStart
    \/ SweepRecord

SpecStore == Init /\ [][NextStore]_vars

-----------------------------------------------------------------------------
(* The pure functions, each called once on an argument drawn at Init.      *)

InitParse ==
    /\ Init!1 /\ Init!2 /\ Init!3 /\ Init!4 /\ Init!5 /\ Init!6 /\ Init!7 /\ Init!8
    /\ probe \in {[NoProbe EXCEPT !.fn = "parse_timestamp_ranges", !.arg = text] : text \in Texts}

CallParse ==
    /\ probe.fn = "parse_timestamp_ranges"
    /\ ~probe.called
    /\ probe' = [probe EXCEPT !.called = TRUE, !.parsed = parse_timestamp_ranges(probe.arg)]
    /\ UNCHANGED <<temp_clips, order, dirs, files, req, dl, exiting, sweep>>

SpecParse == InitParse /\ [][CallParse]_vars

InitName ==
    /\ Init!1 /\ Init!2 /\ Init!3 /\ Init!4 /\ Init!5 /\ Init!6 /\ Init!7 /\ Init!8
    /\ probe \in {[NoProbe EXCEPT !.fn = "get_first_word", !.arg = name] : name \in Names}

CallName ==
    /\ probe.fn = "get_first_word"
    /\ ~probe.called
    /\ probe' = [probe EXCEPT !.called = TRUE, !.word = get_first_word(probe.arg)]
    /\ UNCHANGED <<temp_clips, order, dirs, files, req, dl, exiting, sweep>>

SpecName == InitName /\ [][CallName]_vars

-----------------------------------------------------------------------------
(* What the claims are stated with: the parser's reference, written from   *)
(* the text of the claim, and the clip name written out from its format.   *)

\* the candidates that are not skipped: split on ",", stripped, non-blank
RefCandidates(text) ==
    LET pieces == Split(text, ",")
    IN  SelectSeq([k \in 1..Len(pieces) |-> Strip(pieces[k])], LAMBDA c : c # <<>>)

RefTokens(part) == Split(Strip(part), ":")

\* 2 or 3 ":"-separated integer tokens
RefClockOk(part) ==
    LET tok == RefTokens(part)
    IN  Len(tok) \in {2, 3} /\ \A k \in 1..Len(tok) : IntOk(tok[k])

\* m*60+s, or h*3600+m*60+s
RefClockVal(part) ==
    LET tok == RefTokens(part)
    IN  IF Len(tok) = 2 THEN IntVal(tok[1]) * 60 + IntVal(tok[2])
        ELSE IntVal(tok[1]) * 3600 + IntVal(tok[2]) * 60 + IntVal(tok[3])

\* exactly two "-"-separated parts, each a clock value
RefCandOk(cand) ==
    LET parts == Split(cand, "-")
    IN  Len(parts) = 2 /\ RefClockOk(parts[1]) /\ RefClockOk(parts[2])

RefPair(cand) ==
    LET parts == Split(cand, "-")
    IN  <<RefClockVal(parts[1]), RefClockVal(parts[2])>>

RefOrdered(cand) == LET pair == RefPair(cand) IN pair[1] < pair[2]

\* the reference accepts the text: every candidate is well formed
RefAccepts(text) ==
    LET cands == RefCandidates(text)
    IN  \A k \in 1..Len(cands) : RefCandOk(cands[k])

\* ... and every candidate's start is before its end
RefAcceptsOrdered(text) ==
    LET cands == RefCandidates(text)
    IN  \A k \in 1..Len(cands) : RefCandOk(cands[k]) /\ RefOrdered(cands[k])

\* one (start, end) per candidate, in order of appearance
RefPairs(text) ==
    LET cands == RefCandidates(text)
    IN  [k \in 1..Len(cands) |-> RefPair(cands[k])]

\* the labels of a candidate, as typed
RefStartLabel(cand) == Strip(Split(cand, "-")[1])

RefEndLabel(cand) == Strip(Split(cand, "-")[2])

\* the (start, end) pairs of a parsed list
Pairs(ranges) == [k \in 1..Len(ranges) |-> <<ranges[k].start, ranges[k].end>>]

\* some candidate "a-b" of the text has a start at or after its end
HasUnorderedCandidate(text) ==
    LET cands == RefCandidates(text)
    IN  \E k \in 1..Len(cands) : RefCandOk(cands[k]) /\ ~RefOrdered(cands[k])

\* "{baseToken}-{i}-[{startLabel, ':' as '_'} - {endLabel, ':' as '_'}].mp4"
RefClipName(baseToken, i, startLabel, endLabel) ==
    baseToken \o <<"-">> \o IntToStr(i) \o <<"-">> \o <<"[">>
        \o Join(Split(startLabel, ":"), "_") \o <<" ", "-", " ">>
        \o Join(Split(endLabel, ":"), "_") \o <<"]", ".", "m", "p", "4">>

Done(r) == req[r].pc = "done"

Succeeded(r) == Done(r) /\ req[r].response.status = 200

ParseCalled == probe.fn = "parse_timestamp_ranges" /\ probe.called

NameCalled == probe.fn = "get_first_word" /\ probe.called

\* the two-range example of the parser and its expected values
SpecExampleText == Join(<<CandSpecFirst, CandSpecSecond>>, ",")

-----------------------------------------------------------------------------
(* The claims.                                                             *)

\* C1 (as claimed; refuted): a /split request rejected with a validation
\* error (400) has had no side effect: no directory or file was created, the
\* table is as it was, no cutter was run and no scratch directory was made.
C1_NoSideEffectBeforeRejection ==
    [][\A r \in Jobs :
          (req[r].pc = "idle" /\ req'[r].pc = "done" /\ req'[r].response.status = 400)
              => /\ dirs' = dirs
                 /\ files' = files
                 /\ temp_clips' = temp_clips
                 /\ req'[r].calls = <<>>
                 /\ req'[r].temp_dir = <<>>]_vars

\* C2 (as claimed; refuted): a request whose timestamp text yields zero
\* ranges ends with a validation error, with nothing staged and no cutter run.
C2_ZeroRangesRejected ==
    \A r \in Jobs :
        (Done(r) /\ RefAccepts(req[r].timestamps) /\ Len(RefCandidates(req[r].timestamps)) = 0)
            => /\ req[r].response.status = 400
               /\ req[r].temp_dir = <<>>
               /\ req[r].calls = <<>>

\* C3: when the re-encode run for range i fails after the copy run for i
\* failed, that run is the last of the job, the job has ended with a 500
\* carrying that run's diagnostic output, and the response holds no clip.
C3_FailedRangeFailsJob ==
    \A r \in Jobs : \A k \in 1..Len(req[r].calls) :
        (req[r].calls[k].mode = "reencode" /\ ~req[r].calls[k].ok)
            => /\ k > 1
               /\ req[r].calls[k - 1].mode = "copy"
               /\ ~req[r].calls[k - 1].ok
               /\ req[r].calls[k - 1].i = req[r].calls[k].i
               /\ k = Len(req[r].calls)
               /\ \A j \in 1..Len(req[r].calls) : req[r].calls[j].i <= req[r].calls[k].i
               /\ Done(r)
               /\ req[r].response.status = 500
               /\ req[r].response.error = "FFmpeg failed"
               /\ req[r].response.stderr = [i |-> req[r].calls[k].i, mode |-> "reencode"]
               /\ req[r].response.clips = <<>>

\* one job failed on its second range after its first clip was cut, another
\* failed on the first of its two ranges
C3_Witness ==
    \E r1, r2 \in Jobs :
        /\ req[r1].response.status = 500 /\ req[r1].i = 2 /\ Len(req[r1].clips_info) = 1
        /\ req[r2].response.status = 500 /\ req[r2].i = 1 /\ Len(req[r2].ranges) = 2
        /\ Len(req[r2].calls) = 2

\* C4: a successful job with n ranges answers n descriptors, the i-th named
\* after the base token, i and the labels of the i-th range as typed; the
\* cutter runs for range i all come before those for range i+1, and the clip
\* of range i is written under the name of descriptor i.
C4_NamesInInputOrder ==
    /\ OutputFilename(<<"S", "h", "o", "w">>, 2,
                      [start |-> 60, end |-> 150, start_str |-> <<"1", ":", "0", "0">>,
                       end_str |-> <<"2", ":", "3", "0">>])
           = <<"S", "h", "o", "w", "-", "2", "-", "[", "1", "_", "0", "0", " ", "-", " ",
               "2", "_", "3", "0", "]", ".", "m", "p", "4">>
    /\ \A r \in Jobs :
          /\ \A j, k \in 1..Len(req[r].calls) : j < k => req[r].calls[j].i <= req[r].calls[k].i
          /\ Succeeded(r) =>
                LET cands == RefCandidates(req[r].timestamps)
                    clips == req[r].response.clips
                IN  /\ Len(clips) = Len(cands)
                    /\ Len(req[r].ranges) = Len(cands)
                    /\ \A i \in 1..Len(cands) :
                          /\ clips[i].filename
                                 = RefClipName(get_first_word(req[r].filename), i,
                                               RefStartLabel(cands[i]), RefEndLabel(cands[i]))
                          /\ \E k \in 1..Len(req[r].calls) :
                                /\ req[r].calls[k].i = i
                                /\ req[r].calls[k].ok
                                /\ req[r].calls[k].target[2] = clips[i].filename

\* a job answered two descriptors
C4_Witness == \E r \in Jobs : Succeeded(r) /\ Len(req[r].response.clips) = 2

\* C5 (as claimed; refuted): a job that succeeds with an output directory
\* answers descriptors without ids, none of its steps changes the table, and
\* its scratch directory does not exist when it answers.  Stated for the
\* jobs that cut at least one clip, where it already fails.
C5_ScratchGoneOnSuccess ==
    [][\A r \in Jobs :
          /\ (req'[r] # req[r] /\ req'[r].save_to_path) => temp_clips' = temp_clips
          /\ (req[r].pc # "done" /\ req'[r].pc = "done" /\ req'[r].save_to_path
                  /\ req'[r].response.status = 200 /\ Len(req'[r].ranges) > 0)
                 => /\ \A k \in 1..Len(req'[r].response.clips) :
                          req'[r].response.clips[k].id = NoId
                    /\ req'[r].temp_dir \notin dirs']_vars

\* C5 (amended): ... and its scratch directory has been removed with rmtree
\* when it answers: the directory does not exist unless that rmtree failed.
C5_ScratchRemovedOnSuccess ==
    [][\A r \in Jobs :
          /\ (req'[r] # req[r] /\ req'[r].save_to_path) => temp_clips' = temp_clips
          /\ (req[r].pc # "done" /\ req'[r].pc = "done" /\ req'[r].save_to_path
                  /\ req'[r].response.status = 200)
                 => /\ \A k \in 1..Len(req'[r].response.clips) :
                          req'[r].response.clips[k].id = NoId
                    /\ req'[r].rmtree # "not called"
                    /\ (req'[r].temp_dir \in dirs' => req'[r].rmtree = "failed")]_vars

\* a job answered two descriptors for its output directory and its scratch
\* directory is gone
C5_Witness ==
    \E r \in Jobs :
        /\ Succeeded(r) /\ req[r].save_to_path /\ Len(req[r].response.clips) = 2
        /\ req[r].rmtree = "removed" /\ req[r].temp_dir \notin dirs

\* C6 (as claimed; refuted): the ids a successful job without output
\* directory answered are pairwise distinct and each resolves to the record
\* of that job's own clip, whatever other jobs registered.
C6_IdsResolveToOwnClips ==
    \A r \in Jobs :
        (Succeeded(r) /\ ~req[r].save_to_path) =>
            LET clips == req[r].response.clips
            IN  /\ \A j, k \in 1..Len(clips) : j # k => clips[j].id # clips[k].id
                /\ \A k \in 1..Len(clips) :
                      /\ clips[k].id \in DOMAIN temp_clips
                      /\ temp_clips[clips[k].id].path
                             = PathJoin(req[r].temp_dir, clips[k].filename)

\* C7 (as claimed; refuted): a download changes neither the table nor the
\* disk; for a registered id it answers that record's clip under its display
\* name, for any other id not-found.
C7_DownloadReadOnly ==
    [][dl' # dl =>
          /\ UNCHANGED <<temp_clips, dirs, files>>
          /\ IF dl'.id \in DOMAIN temp_clips
             THEN /\ dl'.status = 200
                  /\ dl'.download_name = temp_clips[dl'.id].filename
                  /\ temp_clips[dl'.id].path \in DOMAIN files
                  /\ dl'.body = <<files[temp_clips[dl'.id].path]>>
             ELSE dl'.status = 404]_vars

\* C8: a request whose text has a candidate "a-b" with a at or after b is
\* rejected with a validation error when its text is parsed; the ranges of a
\* job are those typed, bounds unswapped, with 0 <= start < end; every cutter
\* run is given the start and the duration end - start of its range, a
\* positive number.
C8_StartBeforeEnd ==
    /\ [][\A r \in Jobs :
             (req[r].pc = "idle" /\ req'[r].pc # "idle" /\ req'[r].timestamps # <<>>) =>
                 /\ HasUnorderedCandidate(req'[r].timestamps)
                        => /\ req'[r].pc = "done"
                           /\ req'[r].response.status = 400
                           /\ req'[r].ranges = <<>>
                 /\ Len(req'[r].ranges) > 0
                        => Pairs(req'[r].ranges) = RefPairs(req'[r].timestamps)]_vars
    /\ [](\A r \in Jobs :
             /\ \A k \in 1..Len(req[r].ranges) :
                   req[r].ranges[k].start >= 0 /\ req[r].ranges[k].end > req[r].ranges[k].start
             /\ \A k \in 1..Len(req[r].calls) :
                   LET call == req[r].calls[k]
                       range_info == req[r].ranges[call.i]
                   IN  /\ call.t > 0
                       /\ call.ss = range_info.start
                       /\ call.t = range_info.end - range_info.start)

\* one request was rejected for equal bounds, another had the cutter run
C8_Witness ==
    \E r1, r2 \in Jobs :
        /\ req[r1].timestamps = CandEqual /\ req[r1].response.status = 400
        /\ req[r1].response.error = "Invalid range"
        /\ Len(req[r2].calls) > 0

\* C9 (as claimed; refuted): parse accepts a text exactly when every
\* non-skipped candidate is two clock values, and then returns their
\* (start, end) values in order of appearance.
C9_ParseAgreesWithReference ==
    ParseCalled =>
        /\ (probe.parsed.err = NoError) = RefAccepts(probe.arg)
        /\ RefAccepts(probe.arg) => Pairs(probe.parsed.ranges) = RefPairs(probe.arg)

\* C9 (amended): parse accepts a text exactly when every non-skipped
\* candidate is two clock values with the start before the end, and then
\* returns their (start, end) values and labels in order of appearance;
\* the example text yields [5670,6043] then [2443,2700], and a text of
\* blank candidates the empty sequence.
C9_ParseAgreesWithOrderedReference ==
    ParseCalled =>
        /\ (probe.parsed.err = NoError) = RefAcceptsOrdered(probe.arg)
        /\ RefAcceptsOrdered(probe.arg) =>
              /\ Pairs(probe.parsed.ranges) = RefPairs(probe.arg)
              /\ \A k \in 1..Len(probe.parsed.ranges) :
                    /\ probe.parsed.ranges[k].start_str
                           = RefStartLabel(RefCandidates(probe.arg)[k])
                    /\ probe.parsed.ranges[k].end_str = RefEndLabel(RefCandidates(probe.arg)[k])
        /\ ~RefAcceptsOrdered(probe.arg) => probe.parsed.ranges = <<>>
        /\ probe.arg = SpecExampleText =>
              Pairs(probe.parsed.ranges) = <<<<5670, 6043>>, <<2443, 2700>>>>
        /\ probe.arg = <<",">> => probe.parsed = NoParse

\* the example text was parsed into its two ranges
C9_Witness ==
    ParseCalled /\ probe.arg = SpecExampleText /\ Len(probe.parsed.ranges) = 2

\* C10 (as claimed; refuted): the first word is never empty, and is "clip"
\* when the extraction by delimiter gives nothing.
C10_FirstWordNeverEmpty ==
    NameCalled =>
        /\ probe.word # <<>>
        /\ probe.arg = <<"_", ".", "m", "p", "4">> => probe.word = <<"c", "l", "i", "p">>

\* C11: the first cutter run for a range is a stream copy; a re-encode run
\* comes exactly after a failed copy run of the same range, once, with the
\* same source, seek offset, duration and target; a range has at most two
\* runs; a run that succeeds yields the clip of its range and the next run,
\* if any, is the copy run of the next range; a job ends with the cutter's
\* error only after both runs of a range failed.
C11_CopyThenReencodeOnce ==
    \A r \in Jobs :
        LET calls == req[r].calls
        IN  /\ \A k \in 1..Len(calls) :
                  /\ calls[k].mode \in {"copy", "reencode"}
                  /\ calls[k].ss = req[r].ranges[calls[k].i].start
                  /\ calls[k].t = req[r].ranges[calls[k].i].end - req[r].ranges[calls[k].i].start
                  /\ calls[k].mode = "copy" =>
                        /\ calls[k].i = Cardinality({j \in 1..(k - 1) : calls[j].mode = "copy"}) + 1
                        /\ k > 1 => (calls[k - 1].ok /\ calls[k - 1].i = calls[k].i - 1)
                        /\ ~calls[k].ok =>
                              IF k = Len(calls) THEN req[r].pc = "reencode" /\ req[r].i = calls[k].i
                              ELSE calls[k + 1].mode = "reencode"
                        /\ (calls[k].ok /\ k < Len(calls)) => calls[k + 1].mode = "copy"
                  /\ calls[k].mode = "reencode" =>
                        /\ k > 1
                        /\ calls[k - 1].mode = "copy"
                        /\ ~calls[k - 1].ok
                        /\ calls[k - 1].i = calls[k].i
                        /\ calls[k - 1].src = calls[k].src
                        /\ calls[k - 1].ss = calls[k].ss
                        /\ calls[k - 1].t = calls[k].t
                        /\ calls[k - 1].target = calls[k].target
                  /\ calls[k].ok =>
                        /\ Len(req[r].clips_info) >= calls[k].i
                        /\ req[r].clips_info[calls[k].i].filename = calls[k].target[2]
            /\ \A i \in 1..Len(req[r].ranges) :
                  Cardinality({k \in 1..Len(calls) : calls[k].i = i}) <= 2
            /\ Len(req[r].clips_info) = Cardinality({k \in 1..Len(calls) : calls[k].ok})
            /\ (Done(r) /\ req[r].response.error = "FFmpeg failed") =>
                  /\ Len(calls) >= 2
                  /\ ~calls[Len(calls)].ok /\ calls[Len(calls)].mode = "reencode"
                  /\ ~calls[Len(calls) - 1].ok /\ calls[Len(calls) - 1].mode = "copy"

\* a job whose first range was cut by the re-encode run after its copy run
\* failed, and whose second range was cut by the copy run
C11_Witness ==
    \E r \in Jobs :
        /\ Succeeded(r) /\ Len(req[r].calls) = 3
        /\ ~req[r].calls[1].ok /\ req[r].calls[2].mode = "reencode" /\ req[r].calls[2].ok
        /\ req[r].calls[3].mode = "copy" /\ req[r].calls[3].ok

\* C12 (as claimed; refuted): the scratch directory of every record of the
\* table exists, and no step of a /split handler removes a directory that a
\* record of the table names.
C12_RecordedScratchExists ==
    /\ [](\A id \in DOMAIN temp_clips : temp_clips[id].temp_dir \in dirs)
    /\ [][\A id \in DOMAIN temp_clips :
             (req' # req /\ temp_clips[id].temp_dir \in dirs) => temp_clips[id].temp_dir \in dirs']_vars

\* C13 (as claimed; refuted): when a request that made a scratch directory
\* is answered with a failure, or with success for an output directory, the
\* scratch directory has been removed: it does not exist unless the removal
\* was tried and failed, which leaves the answer as it would have been.
C13_ScratchRemovedWhenResolved ==
    [][\A r \in Jobs :
          (req[r].pc # "done" /\ req'[r].pc = "done" /\ req'[r].temp_dir # <<>>
              /\ (req'[r].response.status = 500 \/ req'[r].save_to_path))
             => /\ req'[r].temp_dir \in dirs' => req'[r].rmtree = "failed"
                /\ req'[r].response.status \in {200, 500}
                /\ req'[r].response.status = 200 =>
                      Len(req'[r].response.clips) = Len(req'[r].ranges)]_vars

\* C14 (as claimed; refuted): the sweep starts with the list of every record
\* of the table; each pass takes the next item of the list, deletes its
\* record, and removes its scratch directory or, when the removal fails,
\* leaves the disk as it is and goes on; when the sweep ends the table is
\* empty.
C14_SweepEmptiesTable ==
    [][/\ (sweep.pc = "idle" /\ sweep'.pc # "idle") =>
             /\ {sweep'.items[k][1] : k \in 1..Len(sweep'.items)} = DOMAIN temp_clips
             /\ \A k \in 1..Len(sweep'.items) :
                   sweep'.items[k][2] = temp_clips[sweep'.items[k][1]]
       /\ (sweep.pc = "loop" /\ sweep' # sweep) =>
             /\ Head(sweep.items)[1] \notin DOMAIN temp_clips'
             /\ Head(sweep.items)[2].temp_dir \notin dirs' \/ dirs' = dirs
             /\ sweep'.items = Tail(sweep.items)
             /\ sweep'.pc = "loop" => sweep'.items # <<>>
       /\ (sweep.pc # "done" /\ sweep'.pc = "done") => temp_clips' = <<>>]_vars

\* a /split handler between staging and its answer
InFlight(r) == req[r].pc \in {"copy", "reencode"}

\* C15 (as claimed; refuted): two jobs in flight have different scratch
\* directories and no cutter run of one has the target of a cutter run of
\* the other; a job that answers success for an output directory finds each
\* of its clips there, cut from its own upload.
C15_JobsIndependent ==
    /\ [](\A r1, r2 \in Jobs :
             (r1 # r2 /\ InFlight(r1) /\ InFlight(r2)) =>
                 /\ req[r1].temp_dir # req[r2].temp_dir
                 /\ \A k1 \in 1..Len(req[r1].calls), k2 \in 1..Len(req[r2].calls) :
                       req[r1].calls[k1].target # req[r2].calls[k2].target)
    /\ [][\A r \in Jobs :
             (req[r].pc # "done" /\ req'[r].pc = "done" /\ req'[r].response.status = 200
                 /\ req'[r].save_to_path) =>
                 \A k \in 1..Len(req'[r].response.clips) :
                     LET path == PathJoin(req'[r].output_path, req'[r].response.clips[k].filename)
                     IN  path \in DOMAIN files' /\ files'[path].src = r]_vars

=============================================================================
